---- MODULE Spec2Model ----
(***************************************************************************)
(* Model of package geo (github.com/paulstuart/geo): the nearest-point     *)
(* searches Bestest and Closest over a sorted GeoPoints sequence, the box  *)
(* builders Expand and AreaInRange64, and the range scan Iter.Ranger over  *)
(* a record store read through one shared decoder.                         *)
(*                                                                         *)
(* Fixed point.  Latitudes, longitudes and every quantity in degrees are   *)
(* integers in tenths of a degree; distances and km-per-degree factors are *)
(* integers in units of 0.0001 km (so the code's 0.0001 is 1 and its       *)
(* 111.111 is 1111110).  A float division a/b that yields degrees is       *)
(* (a * 10) \div b, rounded down; a comparison of a whole number of tenths *)
(* with p - q or p + q has the same outcome for q and for q rounded down.  *)
(* Values of the trigonometric formulas are tabulated, truncated to the    *)
(* unit, at the coordinates the model uses.                                *)
(***************************************************************************)
EXTENDS Integers, Sequences, FiniteSets, TLC

VARIABLES
  g,         \* the sorted sequence of points (GeoPoints / the record store)
  fn,        \* the function called: "Bestest", "Closest" or "Expand"
  pt,        \* the query point (Expand: the centre)
  deltaKm,   \* the radius argument
  pc,        \* position of the call
  lo, hi,    \* sort.Search's i and j
  x,         \* result of the binary search
  i,         \* loop index of the backward / forward scan
  best, closest, minLat, maxLat, deltaLon,   \* the locals of the same names
  calls,     \* number of g.IndexPoint calls made by the search
  ret,       \* the returned value
  from, to, ctr,   \* Ranger's arguments, per query
  rpc,       \* position of each Ranger call
  rlo, rhi,  \* sort.Search's i and j, per query
  idx,       \* Ranger's idx, per query
  dec,       \* the Iter's one decoder: the record it holds and who decoded it
  mine,      \* per query: the record index it last asked the decoder to decode
  loads,     \* per query: the indices passed to Load
  out,       \* per query: the records handed to the callback, in order
  err        \* per query: what Ranger returned

searchVars == <<fn, pt, deltaKm, pc, lo, hi, x, i, best, closest, minLat, maxLat,
                deltaLon, calls, ret>>
rangerVars == <<from, to, ctr, rpc, rlo, rhi, idx, dec, mine, loads, out, err>>
vars == <<g, searchVars, rangerVars>>

----------------------------------------------------------------------------
(* Bounds of the model *)

\* longest sequence searched by Bestest / Closest
MaxLen == 4
\* most records in the store scanned by one Ranger
MaxRecs == 3
\* most records in the store scanned by two concurrent Rangers
MaxConcRecs == 2

\* coordinates, in tenths of a degree
Lats == {-100, 0, 100}
Lons == {-100, 0, 100}
Points == [Lat : Lats, Lon : Lons]
\* radii, in 0.0001 km: negative, zero, the exact distance of 10 degrees of
\* latitude, 1600 km and 2500 km
Radii == {-10000000, 0, 11119667, 16000000, 25000000}

----------------------------------------------------------------------------
(* Program constants *)

\* a seed 500 km over the radius, for comparison with SeedEpsilon
SeedEpsilonWide == 500 * 10000

DegreeToKilometer == 1111110
\* the 0.0001 added to the radius to seed Bestest
SeedEpsilon == 1
\* the -1 distance of the not-found return
NotFoundDistance == -10000
\* len(lonKmLookup)
LookupLen == 901

----------------------------------------------------------------------------
(* Floating point: division by zero gives an infinity or NaN, no panic *)

PosInf == 2 * 1000000000
NegInf == -PosInf
NaN == PosInf + 1

IsNum(a) == a # PosInf /\ a # NegInf /\ a # NaN

\* a / b of two distances (or a distance and a km-per-degree factor),
\* the quotient being degrees
FDiv(a, b) ==
  IF b # 0 THEN (a * 10) \div b
  ELSE IF a > 0 THEN PosInf ELSE IF a < 0 THEN NegInf ELSE NaN

FAdd(a, b) == IF IsNum(a) /\ IsNum(b) THEN a + b ELSE IF IsNum(a) THEN b ELSE a
FSub(a, b) ==
  IF IsNum(a) /\ IsNum(b) THEN a - b
  ELSE IF b = PosInf THEN NegInf ELSE IF b = NegInf THEN PosInf ELSE NaN
\* a < b and a > b are false when either side is NaN
FLt(a, b) == a # NaN /\ b # NaN /\ a < b
FGt(a, b) == a # NaN /\ b # NaN /\ a > b

Abs(a) == IF a < 0 THEN -a ELSE a

----------------------------------------------------------------------------
(* Geo-math primitives *)

\* cos(deg2rad(i / 10)) * DegreeToKilometer for i = 0 .. 900, entry i + 1
LonKilosTable ==
  <<
    1111110, 1111108, 1111103, 1111094, 1111082, 1111067, 1111049, 1111027, 1111001, 1110972,
    1110940, 1110905, 1110866, 1110824, 1110778, 1110729, 1110676, 1110620, 1110561, 1110499,
    1110433, 1110363, 1110291, 1110214, 1110135, 1110052, 1109966, 1109876, 1109783, 1109687,
    1109587, 1109484, 1109377, 1109267, 1109154, 1109037, 1108917, 1108794, 1108667, 1108536,
    1108403, 1108266, 1108126, 1107982, 1107835, 1107684, 1107530, 1107373, 1107213, 1107049,
    1106881, 1106711, 1106537, 1106359, 1106178, 1105994, 1105807, 1105616, 1105421, 1105224,
    1105023, 1104818, 1104611, 1104399, 1104185, 1103967, 1103746, 1103521, 1103293, 1103062,
    1102827, 1102589, 1102348, 1102103, 1101855, 1101604, 1101349, 1101091, 1100829, 1100564,
    1100296, 1100025, 1099750, 1099471, 1099190, 1098905, 1098617, 1098325, 1098030, 1097732,
    1097430, 1097125, 1096816, 1096505, 1096190, 1095871, 1095550, 1095224, 1094896, 1094564,
    1094229, 1093891, 1093549, 1093204, 1092856, 1092504, 1092149, 1091790, 1091429, 1091064,
    1090695, 1090324, 1089949, 1089570, 1089189, 1088804, 1088415, 1088024, 1087629, 1087231,
    1086829, 1086424, 1086016, 1085605, 1085190, 1084772, 1084350, 1083926, 1083498, 1083066,
    1082632, 1082194, 1081753, 1081308, 1080861, 1080409, 1079955, 1079497, 1079037, 1078572,
    1078105, 1077634, 1077160, 1076683, 1076202, 1075718, 1075231, 1074740, 1074247, 1073750,
    1073249, 1072746, 1072239, 1071729, 1071216, 1070699, 1070179, 1069656, 1069130, 1068600,
    1068067, 1067531, 1066991, 1066449, 1065903, 1065354, 1064801, 1064246, 1063687, 1063125,
    1062559, 1061991, 1061419, 1060844, 1060265, 1059684, 1059099, 1058511, 1057920, 1057326,
    1056728, 1056127, 1055523, 1054916, 1054305, 1053691, 1053074, 1052454, 1051831, 1051204,
    1050575, 1049942, 1049306, 1048666, 1048024, 1047378, 1046729, 1046077, 1045422, 1044763,
    1044101, 1043437, 1042768, 1042097, 1041423, 1040745, 1040065, 1039381, 1038694, 1038003,
    1037310, 1036614, 1035914, 1035211, 1034505, 1033796, 1033083, 1032368, 1031649, 1030928,
    1030203, 1029475, 1028744, 1028009, 1027272, 1026531, 1025788, 1025041, 1024291, 1023538,
    1022782, 1022022, 1021260, 1020494, 1019726, 1018954, 1018179, 1017401, 1016620, 1015836,
    1015049, 1014259, 1013465, 1012669, 1011869, 1011067, 1010261, 1009452, 1008640, 1007825,
    1007007, 1006186, 1005362, 1004535, 1003704, 1002871, 1002035, 1001195, 1000353, 999507,
    998659, 997807, 996952, 996095, 995234, 994370, 993503, 992633, 991761, 990885,
    990006, 989124, 988239, 987351, 986460, 985566, 984669, 983769, 982866, 981960,
    981051, 980139, 979225, 978307, 977386, 976462, 975535, 974605, 973673, 972737,
    971798, 970857, 969912, 968964, 968014, 967060, 966104, 965145, 964182, 963217,
    962249, 961278, 960304, 959327, 958347, 957364, 956379, 955390, 954398, 953404,
    952407, 951406, 950403, 949397, 948388, 947377, 946362, 945344, 944324, 943300,
    942274, 941245, 940213, 939178, 938141, 937100, 936057, 935011, 933961, 932910,
    931855, 930797, 929737, 928673, 927607, 926538, 925467, 924392, 923315, 922234,
    921151, 920066, 918977, 917886, 916791, 915694, 914595, 913492, 912387, 911278,
    910168, 909054, 907937, 906818, 905696, 904571, 903444, 902314, 901181, 900045,
    898906, 897765, 896621, 895474, 894325, 893173, 892018, 890860, 889700, 888537,
    887371, 886203, 885032, 883858, 882682, 881502, 880320, 879136, 877949, 876759,
    875566, 874371, 873173, 871972, 870769, 869563, 868355, 867144, 865930, 864713,
    863494, 862272, 861048, 859821, 858592, 857359, 856124, 854887, 853647, 852404,
    851159, 849911, 848661, 847408, 846152, 844894, 843633, 842370, 841104, 839836,
    838565, 837291, 836015, 834737, 833455, 832172, 830885, 829597, 828305, 827012,
    825715, 824416, 823115, 821811, 820505, 819196, 817884, 816570, 815254, 813935,
    812614, 811290, 809964, 808635, 807304, 805970, 804634, 803296, 801955, 800611,
    799265, 797917, 796566, 795213, 793857, 792499, 791139, 789776, 788411, 787043,
    785673, 784300, 782926, 781548, 780169, 778787, 777402, 776016, 774627, 773235,
    771841, 770445, 769047, 767646, 766243, 764837, 763429, 762019, 760607, 759192,
    757775, 756355, 754934, 753509, 752083, 750655, 749224, 747790, 746355, 744917,
    743477, 742035, 740590, 739144, 737695, 736243, 734790, 733334, 731876, 730416,
    728953, 727489, 726022, 724553, 723081, 721608, 720132, 718654, 717174, 715692,
    714207, 712721, 711232, 709741, 708248, 706752, 705255, 703755, 702254, 700750,
    699244, 697736, 696225, 694713, 693198, 691682, 690163, 688642, 687119, 685594,
    684067, 682538, 681007, 679473, 677938, 676400, 674861, 673319, 671776, 670230,
    668682, 667132, 665581, 664027, 662471, 660913, 659353, 657791, 656227, 654661,
    653094, 651524, 649952, 648378, 646802, 645224, 643645, 642063, 640479, 638894,
    637306, 635717, 634125, 632532, 630936, 629339, 627740, 626139, 624536, 622931,
    621324, 619716, 618105, 616493, 614878, 613262, 611644, 610024, 608402, 606779,
    605153, 603526, 601897, 600266, 598633, 596998, 595362, 593724, 592084, 590442,
    588798, 587153, 585505, 583856, 582205, 580553, 578899, 577242, 575584, 573925,
    572263, 570600, 568935, 567269, 565601, 563930, 562259, 560585, 558910, 557233,
    555555, 553874, 552192, 550509, 548823, 547136, 545448, 543757, 542065, 540372,
    538676, 536979, 535281, 533581, 531879, 530175, 528470, 526764, 525055, 523346,
    521634, 519921, 518206, 516490, 514772, 513053, 511332, 509610, 507886, 506160,
    504433, 502704, 500974, 499242, 497509, 495774, 494038, 492300, 490561, 488820,
    487078, 485334, 483589, 481842, 480094, 478345, 476594, 474841, 473087, 471332,
    469575, 467817, 466057, 464296, 462533, 460769, 459004, 457237, 455469, 453700,
    451929, 450156, 448383, 446608, 444831, 443054, 441274, 439494, 437712, 435929,
    434145, 432359, 430572, 428784, 426994, 425203, 423411, 421617, 419822, 418026,
    416229, 414430, 412630, 410829, 409026, 407223, 405418, 403612, 401804, 399996,
    398186, 396375, 394562, 392749, 390934, 389118, 387301, 385483, 383664, 381843,
    380022, 378199, 376375, 374549, 372723, 370896, 369067, 367237, 365407, 363575,
    361742, 359907, 358072, 356236, 354398, 352560, 350720, 348880, 347038, 345195,
    343351, 341507, 339661, 337814, 335966, 334117, 332267, 330416, 328564, 326711,
    324857, 323002, 321146, 319289, 317431, 315572, 313712, 311851, 309989, 308127,
    306263, 304398, 302533, 300666, 298799, 296931, 295062, 293191, 291321, 289449,
    287576, 285702, 283828, 281952, 280076, 278199, 276321, 274443, 272563, 270683,
    268801, 266919, 265036, 263153, 261268, 259383, 257497, 255610, 253722, 251834,
    249945, 248055, 246164, 244273, 242381, 240488, 238594, 236700, 234805, 232909,
    231012, 229115, 227217, 225318, 223419, 221519, 219619, 217717, 215815, 213913,
    212009, 210105, 208201, 206296, 204390, 202483, 200576, 198668, 196760, 194851,
    192942, 191032, 189121, 187210, 185298, 183386, 181473, 179559, 177645, 175731,
    173815, 171900, 169984, 168067, 166150, 164232, 162314, 160395, 158476, 156556,
    154636, 152716, 150794, 148873, 146951, 145028, 143106, 141182, 139259, 137334,
    135410, 133485, 131559, 129634, 127707, 125781, 123854, 121926, 119999, 118071,
    116142, 114213, 112284, 110355, 108425, 106495, 104564, 102633, 100702, 98771,
    96839, 94907, 92975, 91042, 89109, 87176, 85243, 83309, 81375, 79441,
    77507, 75572, 73637, 71702, 69767, 67831, 65895, 63959, 62023, 60087,
    58151, 56214, 54277, 52340, 50403, 48465, 46528, 44590, 42653, 40715,
    38777, 36839, 34900, 32962, 31024, 29085, 27146, 25208, 23269, 21330,
    19391, 17452, 15513, 13574, 11635, 9696, 7756, 5817, 3878, 1939,
    0
  >>

\* LonKilos: kilometres per degree of longitude at latitude lat
LonKilos(lat) == LonKilosTable[Abs(lat) + 1]

\* the table init() fills: lonKmLookup[i] = LonKilos(i / 10)
lonKmLookup == [k \in 0..(LookupLen - 1) |-> LonKilos(k)]

\* idx := int(lat * 10): lat is a whole number of tenths, so idx is lat
LookupIndex(lat) == lat

\* lonKmLookup[idx] panics (index out of range) outside the table
LookupPanics(lat) == LookupIndex(lat) \notin DOMAIN lonKmLookup

LookupLonKmPerLat(lat) == lonKmLookup[LookupIndex(lat)]

LongitudeKilometerDegrees(lat, kilometers) == FDiv(kilometers, LonKilos(lat))

\* acos(sin(a)sin(c) + cos(a)cos(c)cos(dlon)) * EarthRadiusInKM, keyed by
\* <<lat1, lat2, |lon2 - lon1|>>
DistanceTable ==
     (<<-100, -100, 0>> :> 0)
  @@ (<<-100, -100, 100>> :> 10950314)
  @@ (<<-100, -100, 200>> :> 21898076)
  @@ (<<-100, 0, 0>> :> 11119667)
  @@ (<<-100, 0, 100>> :> 15685451)
  @@ (<<-100, 0, 200>> :> 24762102)
  @@ (<<-100, 100, 0>> :> 22239334)
  @@ (<<-100, 100, 100>> :> 24839007)
  @@ (<<-100, 100, 200>> :> 31370903)
  @@ (<<0, -100, 0>> :> 11119667)
  @@ (<<0, -100, 100>> :> 15685451)
  @@ (<<0, -100, 200>> :> 24762102)
  @@ (<<0, 0, 0>> :> 0)
  @@ (<<0, 0, 100>> :> 11119667)
  @@ (<<0, 0, 200>> :> 22239334)
  @@ (<<0, 100, 0>> :> 11119667)
  @@ (<<0, 100, 100>> :> 15685451)
  @@ (<<0, 100, 200>> :> 24762102)
  @@ (<<100, -100, 0>> :> 22239334)
  @@ (<<100, -100, 100>> :> 24839007)
  @@ (<<100, -100, 200>> :> 31370903)
  @@ (<<100, 0, 0>> :> 11119667)
  @@ (<<100, 0, 100>> :> 15685451)
  @@ (<<100, 0, 200>> :> 24762102)
  @@ (<<100, 100, 0>> :> 0)
  @@ (<<100, 100, 100>> :> 10950314)
  @@ (<<100, 100, 200>> :> 21898076)

Distance(lat1, lon1, lat2, lon2) == DistanceTable[<<lat1, lat2, Abs(lon2 - lon1)>>]

\* sqrt(((lat2 - lat1) * DegreeToKilometer)^2 + ((lon2 - lon1) * lonKmLookup[idx])^2),
\* keyed by <<idx, |lat2 - lat1|, |lon2 - lon1|>>
ApproximateTable ==
     (<<0, 0, 0>> :> 0)
  @@ (<<0, 0, 100>> :> 11111100)
  @@ (<<0, 0, 200>> :> 22222200)
  @@ (<<0, 100, 0>> :> 11111100)
  @@ (<<0, 100, 100>> :> 15713468)
  @@ (<<0, 100, 200>> :> 24845174)
  @@ (<<0, 200, 0>> :> 22222200)
  @@ (<<0, 200, 100>> :> 24845174)
  @@ (<<0, 200, 200>> :> 31426936)
  @@ (<<100, 0, 0>> :> 0)
  @@ (<<100, 0, 100>> :> 10942297)
  @@ (<<100, 0, 200>> :> 21884594)
  @@ (<<100, 100, 0>> :> 11111100)
  @@ (<<100, 100, 100>> :> 15594563)
  @@ (<<100, 100, 200>> :> 24543676)
  @@ (<<100, 200, 0>> :> 22222200)
  @@ (<<100, 200, 100>> :> 24770144)
  @@ (<<100, 200, 200>> :> 31189127)

\* the longitude scale is looked up at lat1; defined when that lookup does not panic
ApproximateDistanceGeo(lat1, lon1, lat2, lon2) ==
  ApproximateTable[<<LookupIndex(lat1), Abs(lat2 - lat1), Abs(lon2 - lon1)>>]

----------------------------------------------------------------------------
(* Point, Pair, Rect *)

\* Point.Less: latitude, then longitude
Less(p, q) ==
  IF p.Lat < q.Lat THEN TRUE
  ELSE IF p.Lat > q.Lat THEN FALSE
  ELSE p.Lon < q.Lon

PointDistance(p, q) == Distance(p.Lat, p.Lon, q.Lat, q.Lon)

Approximately(p, q) == ApproximateDistanceGeo(p.Lat, p.Lon, q.Lat, q.Lon)

\* a faulty between that forgets the upper end
betweenNoUpper(check, min, max) == min <= check
between(check, min, max) == min <= check /\ check <= max

\* radiusKM / lon: lon * 1000 is the number lon in units of 0.0001
Expand(lat, lon, radiusKM) ==
  LET latx == FDiv(radiusKM, lon * 1000)
      lonx == LongitudeKilometerDegrees(lat, radiusKM)
  IN <<  <<FSub(lat, latx), FSub(lon, lonx)>>, <<FAdd(lat, latx), FAdd(lon, lonx)>>  >>

AreaInRange64(pair, distance) ==
  LET lat == pair[1]
      lon == pair[2]
      dLat == FDiv(distance, DegreeToKilometer)
      dLon == LongitudeKilometerDegrees(lat, distance)
  IN <<  <<FSub(lat, dLat), FSub(lon, dLon)>>, <<FAdd(lat, dLat), FAdd(lon, dLon)>>  >>

----------------------------------------------------------------------------
(* GeoPoints: a sequence of points, indexed from 0 *)

IndexPoint(s, k) == s[k + 1]

\* indexing a slice outside 0 .. len-1 panics
InRange(s, k) == 0 <= k /\ k < Len(s)

IsSorted(s) == \A j \in 1..(Len(s) - 1) : ~Less(s[j + 1], s[j])

SortedSeqs(n) == {s \in UNION {[1..k -> Points] : k \in 0..n} : IsSorted(s)}

----------------------------------------------------------------------------
(* The search state before and between calls *)

Procs == {1, 2}

NoRet == [idx |-> -1, dist |-> 0]
NotFound(n) == [idx |-> n, dist |-> NotFoundDistance]
Origin == [Lat |-> 0, Lon |-> 0]
NoRecord == [rec |-> -1, by |-> 0]

\* Containers: no container (nil), or a shape given by the points it contains
NilContainer == [nil |-> TRUE, pts |-> {}]
West == [nil |-> FALSE, pts |-> {p \in Points : p.Lon <= 0}]
NorthEast == [nil |-> FALSE, pts |-> {p \in Points : p.Lat >= 0 /\ p.Lon >= 0}]
Containers == {NilContainer, West, NorthEast}

ContainsPoint(c, p) == p \in c.pts

SearchIdle ==
  /\ fn = "none" /\ pt = Origin /\ deltaKm = 0 /\ pc = "idle"
  /\ lo = 0 /\ hi = 0 /\ x = 0 /\ i = 0 /\ best = 0 /\ closest = 0
  /\ minLat = 0 /\ maxLat = 0 /\ deltaLon = 0 /\ calls = 0 /\ ret = NoRet

RangerIdle ==
  /\ from = [q \in Procs |-> Origin] /\ to = [q \in Procs |-> Origin]
  /\ ctr = [q \in Procs |-> NilContainer] /\ rpc = [q \in Procs |-> "idle"]
  /\ rlo = [q \in Procs |-> 0] /\ rhi = [q \in Procs |-> 0]
  /\ idx = [q \in Procs |-> 0] /\ dec = NoRecord
  /\ mine = [q \in Procs |-> -1] /\ loads = [q \in Procs |-> {}]
  /\ out = [q \in Procs |-> <<>>] /\ err = [q \in Procs |-> "none"]

\* A call of Bestest or Closest on a sorted sequence, or of Expand
Init ==
  /\ fn \in {"Bestest", "Closest", "Expand"}
  /\ g \in IF fn = "Expand" THEN {<<>>} ELSE SortedSeqs(MaxLen)
  /\ pt \in Points
  /\ deltaKm \in Radii
  /\ pc = IF fn = "Expand" THEN "call" ELSE "search"
  /\ lo = 0 /\ hi = Len(g)
  /\ x = 0 /\ i = 0 /\ best = 0 /\ closest = 0
  /\ minLat = 0 /\ maxLat = 0 /\ deltaLon = 0 /\ calls = 0 /\ ret = NoRet
  /\ RangerIdle

----------------------------------------------------------------------------
(* sort.Search(g.Len(), func(i) { return pt.Less(g.IndexPoint(i)) }) *)

\* one iteration of sort.Search: h := (i + j) / 2; if !f(h) { i = h + 1 } else { j = h }
SearchStep ==
  /\ lo < hi
  /\ LET h == (lo + hi) \div 2
     IN /\ calls' = calls + 1
        /\ IF ~Less(pt, IndexPoint(g, h))
             THEN lo' = h + 1 /\ hi' = hi
             ELSE lo' = lo /\ hi' = h

\* a faulty test that misses the failed search
SearchFailedPast(xv, n) == xv > n
\* "did search fail?": x == g.Len()
SearchFailed(xv, n) == xv = n

\* lonOutside, the closure over pt and deltaLon
lonOutside(lon) ==
  LET maxLon == FAdd(pt.Lon, deltaLon)
      minLon == FSub(pt.Lon, deltaLon)
  IN FLt(lon, minLon) \/ FGt(lon, maxLon)

----------------------------------------------------------------------------
(* Bestest *)

BestestSearch ==
  /\ fn = "Bestest" /\ pc = "search"
  /\ SearchStep
  /\ UNCHANGED <<g, fn, pt, deltaKm, pc, x, i, best, closest, minLat, maxLat,
                 deltaLon, ret, rangerVars>>

\* x := the result; return x, -1 when the search failed
BestestSearched ==
  /\ fn = "Bestest" /\ pc = "search"
  /\ lo >= hi
  /\ x' = lo
  /\ IF SearchFailed(lo, Len(g))
       THEN pc' = "done" /\ ret' = NotFound(lo)
       ELSE pc' = "seed" /\ ret' = ret
  /\ UNCHANGED <<g, fn, pt, deltaKm, lo, hi, i, best, closest, minLat, maxLat,
                 deltaLon, calls, rangerVars>>

\* minLat, best, closest, the first hit and the corridor
BestestSeed ==
  /\ fn = "Bestest" /\ pc = "seed"
  /\ IF ~InRange(g, x)
       THEN /\ pc' = "panic"
            /\ UNCHANGED <<minLat, best, closest, deltaLon, calls, i>>
       ELSE LET this == IndexPoint(g, x)
                dist == PointDistance(this, pt)
                seed == deltaKm + SeedEpsilon
                hit == dist < seed
                lonKmPerDegree == LonKilos(pt.Lat)
            IN /\ minLat' = FSub(pt.Lat, FDiv(deltaKm, DegreeToKilometer))
               /\ best' = IF hit THEN x ELSE Len(g)
               /\ closest' = IF hit THEN dist ELSE seed
               /\ deltaLon' = FDiv(closest', lonKmPerDegree)
               /\ calls' = calls + 1
               /\ i' = x - 1
               /\ pc' = "back"
  /\ UNCHANGED <<g, fn, pt, deltaKm, lo, hi, x, maxLat, ret, rangerVars>>

\* for i := x - 1; i > 0; i--
BestestBack ==
  /\ fn = "Bestest" /\ pc = "back"
  /\ IF i > 0 /\ ~FLt(IndexPoint(g, i).Lat, minLat)
       THEN LET this == IndexPoint(g, i)
                dist == PointDistance(pt, this)
            IN /\ calls' = calls + 1
               /\ i' = i - 1
               /\ IF ~lonOutside(this.Lon) /\ dist < closest
                    THEN /\ closest' = dist
                         /\ best' = i
                         /\ minLat' = FSub(pt.Lat, FDiv(dist, DegreeToKilometer))
                         /\ deltaLon' = FDiv(dist, LonKilos(pt.Lat))
                    ELSE UNCHANGED <<closest, best, minLat, deltaLon>>
               /\ UNCHANGED <<pc, maxLat>>
       ELSE \* the loop ends (i = 0) or breaks (this.Lat < minLat)
            /\ calls' = IF i > 0 THEN calls + 1 ELSE calls
            /\ maxLat' = FAdd(pt.Lat, FDiv(closest, DegreeToKilometer))
            /\ i' = x + 1
            /\ pc' = "fwd"
            /\ UNCHANGED <<closest, best, minLat, deltaLon>>
  /\ UNCHANGED <<g, fn, pt, deltaKm, lo, hi, x, ret, rangerVars>>

\* for i := x + 1; i < g.Len(); i++, and the return
BestestFwd ==
  /\ fn = "Bestest" /\ pc = "fwd"
  /\ IF i < Len(g) /\ ~FGt(IndexPoint(g, i).Lat, maxLat)
       THEN LET this == IndexPoint(g, i)
                dist == PointDistance(this, pt)
            IN /\ calls' = calls + 1
               /\ i' = i + 1
               /\ IF ~lonOutside(this.Lon) /\ dist < closest
                    THEN /\ best' = i
                         /\ closest' = dist
                         /\ maxLat' = FAdd(pt.Lat, FDiv(dist, DegreeToKilometer))
                    ELSE UNCHANGED <<best, closest, maxLat>>
               /\ UNCHANGED <<pc, ret>>
       ELSE /\ calls' = IF i < Len(g) THEN calls + 1 ELSE calls
            /\ ret' = [idx |-> best, dist |-> closest]
            /\ pc' = "done"
            /\ UNCHANGED <<i, best, closest, maxLat>>
  /\ UNCHANGED <<g, fn, pt, deltaKm, lo, hi, x, minLat, deltaLon, rangerVars>>

----------------------------------------------------------------------------
(* Closest *)

ClosestSearch ==
  /\ fn = "Closest" /\ pc = "search"
  /\ SearchStep
  /\ UNCHANGED <<g, fn, pt, deltaKm, pc, x, i, best, closest, minLat, maxLat,
                 deltaLon, ret, rangerVars>>

ClosestSearched ==
  /\ fn = "Closest" /\ pc = "search"
  /\ lo >= hi
  /\ x' = lo
  /\ IF SearchFailed(lo, Len(g))
       THEN pc' = "done" /\ ret' = NotFound(lo)
       ELSE pc' = "seed" /\ ret' = ret
  /\ UNCHANGED <<g, fn, pt, deltaKm, lo, hi, i, best, closest, minLat, maxLat,
                 deltaLon, calls, rangerVars>>

\* minLat, best := x, closest := this.Approximately(pt), the corridor;
\* either table lookup may panic
ClosestSeed ==
  /\ fn = "Closest" /\ pc = "seed"
  /\ IF ~InRange(g, x)
       THEN /\ pc' = "panic"
            /\ UNCHANGED <<minLat, best, closest, deltaLon, calls, i>>
       ELSE LET this == IndexPoint(g, x)
            IN /\ calls' = calls + 1
               /\ IF LookupPanics(this.Lat) \/ LookupPanics(pt.Lat)
                    THEN /\ pc' = "panic"
                         /\ UNCHANGED <<minLat, best, closest, deltaLon, i>>
                    ELSE LET dist == Approximately(this, pt)
                             lonKmPerDegree == LookupLonKmPerLat(pt.Lat)
                         IN /\ minLat' = FSub(pt.Lat, FDiv(deltaKm, DegreeToKilometer))
                            /\ best' = x
                            /\ closest' = dist
                            /\ deltaLon' = FDiv(dist, lonKmPerDegree)
                            /\ i' = x - 1
                            /\ pc' = "back"
  /\ UNCHANGED <<g, fn, pt, deltaKm, lo, hi, x, maxLat, ret, rangerVars>>

ClosestBack ==
  /\ fn = "Closest" /\ pc = "back"
  /\ IF i > 0 /\ ~FLt(IndexPoint(g, i).Lat, minLat)
       THEN LET this == IndexPoint(g, i)
            IN /\ calls' = calls + 1
               /\ IF lonOutside(this.Lon)
                    THEN /\ i' = i - 1
                         /\ UNCHANGED <<pc, closest, best, minLat, deltaLon>>
                    ELSE IF LookupPanics(pt.Lat)
                    THEN /\ pc' = "panic"
                         /\ UNCHANGED <<i, closest, best, minLat, deltaLon>>
                    ELSE LET dist == Approximately(pt, this)
                         IN /\ i' = i - 1
                            /\ pc' = pc
                            /\ IF dist < closest
                                 THEN /\ closest' = dist
                                      /\ best' = i
                                      /\ minLat' = FSub(pt.Lat, FDiv(dist, DegreeToKilometer))
                                      /\ deltaLon' = FDiv(dist, LookupLonKmPerLat(pt.Lat))
                                 ELSE UNCHANGED <<closest, best, minLat, deltaLon>>
               /\ UNCHANGED maxLat
       ELSE /\ calls' = IF i > 0 THEN calls + 1 ELSE calls
            /\ maxLat' = FAdd(pt.Lat, FDiv(closest, DegreeToKilometer))
            /\ i' = x + 1
            /\ pc' = "fwd"
            /\ UNCHANGED <<closest, best, minLat, deltaLon>>
  /\ UNCHANGED <<g, fn, pt, deltaKm, lo, hi, x, ret, rangerVars>>

ClosestFwd ==
  /\ fn = "Closest" /\ pc = "fwd"
  /\ IF i < Len(g) /\ ~FGt(IndexPoint(g, i).Lat, maxLat)
       THEN LET this == IndexPoint(g, i)
            IN /\ calls' = calls + 1
               /\ IF lonOutside(this.Lon)
                    THEN /\ i' = i + 1
                         /\ UNCHANGED <<pc, best, closest, maxLat>>
                    ELSE IF LookupPanics(this.Lat)
                    THEN /\ pc' = "panic"
                         /\ UNCHANGED <<i, best, closest, maxLat>>
                    ELSE LET dist == Approximately(this, pt)
                         IN /\ i' = i + 1
                            /\ pc' = pc
                            /\ IF dist < closest
                                 THEN /\ best' = i
                                      /\ closest' = dist
                                      /\ maxLat' = FAdd(pt.Lat, FDiv(dist, DegreeToKilometer))
                                 ELSE UNCHANGED <<best, closest, maxLat>>
               /\ UNCHANGED ret
       ELSE /\ calls' = IF i < Len(g) THEN calls + 1 ELSE calls
            /\ ret' = [idx |-> best, dist |-> closest]
            /\ pc' = "done"
            /\ UNCHANGED <<i, best, closest, maxLat>>
  /\ UNCHANGED <<g, fn, pt, deltaKm, lo, hi, x, minLat, deltaLon, rangerVars>>

----------------------------------------------------------------------------
(* Expand *)

ExpandCall ==
  /\ fn = "Expand" /\ pc = "call"
  /\ ret' = Expand(pt.Lat, pt.Lon, deltaKm)
  /\ pc' = "done"
  /\ UNCHANGED <<g, fn, pt, deltaKm, lo, hi, x, i, best, closest, minLat, maxLat,
                 deltaLon, calls, rangerVars>>

Next ==
  \/ BestestSearch \/ BestestSearched \/ BestestSeed \/ BestestBack \/ BestestFwd
  \/ ClosestSearch \/ ClosestSearched \/ ClosestSeed \/ ClosestBack \/ ClosestFwd
  \/ ExpandCall

Spec == Init /\ [][Next]_vars

----------------------------------------------------------------------------
(* The record store: Iter, its decoder, and Ranger *)

\* Decoder.Decode(record k) by query q: the one decoder now holds record k
Decode(k, q) == [rec |-> k, by |-> q]

\* Decoder.Point(): the point of the record the decoder holds
DecoderPoint(d) == IndexPoint(g, d.rec)

\* Decoder.Less(pt): the record the decoder holds is less than pt
DecoderLess(d, p) == Less(DecoderPoint(d), p)

\* Iter.Less
IterLess(d, p) == DecoderLess(d, p)

\* One Ranger call by query 1 on a sorted store
InitRanger ==
  /\ g \in SortedSeqs(MaxRecs)
  /\ SearchIdle
  /\ from \in [Procs -> Points] /\ from[2] = Origin
  /\ to \in [Procs -> Points] /\ to[2] = Origin
  /\ ctr \in [Procs -> Containers] /\ ctr[2] = NilContainer
  /\ rpc = [q \in Procs |-> IF q = 1 THEN "search" ELSE "idle"]
  /\ rlo = [q \in Procs |-> 0]
  /\ rhi = [q \in Procs |-> IF q = 1 THEN Len(g) ELSE 0]
  /\ idx = [q \in Procs |-> 0] /\ dec = NoRecord
  /\ mine = [q \in Procs |-> -1] /\ loads = [q \in Procs |-> {}]
  /\ out = [q \in Procs |-> <<>>] /\ err = [q \in Procs |-> "none"]

\* boundary points and containers of the concurrent queries
ConcFrom == {[Lat |-> -100, Lon |-> -100], [Lat |-> 0, Lon |-> 0]}
ConcTo == {[Lat |-> 0, Lon |-> 100], [Lat |-> 100, Lon |-> 100]}
ConcContainers == {NilContainer, West}

\* Two Ranger calls running concurrently on the same Iter
InitConc ==
  /\ g \in SortedSeqs(MaxConcRecs)
  /\ SearchIdle
  /\ from \in [Procs -> ConcFrom]
  /\ to \in [Procs -> ConcTo]
  /\ ctr \in [Procs -> ConcContainers]
  /\ rpc = [q \in Procs |-> "search"]
  /\ rlo = [q \in Procs |-> 0]
  /\ rhi = [q \in Procs |-> Len(g)]
  /\ idx = [q \in Procs |-> 0] /\ dec = NoRecord
  /\ mine = [q \in Procs |-> -1] /\ loads = [q \in Procs |-> {}]
  /\ out = [q \in Procs |-> <<>>] /\ err = [q \in Procs |-> "none"]

\* sort.Search calls m.IndexPoint(h), whose first half decodes record h
RangerSearchDecode(q) ==
  /\ rpc[q] = "search"
  /\ rlo[q] < rhi[q]
  /\ LET h == (rlo[q] + rhi[q]) \div 2
     IN /\ dec' = Decode(h, q)
        /\ mine' = [mine EXCEPT ![q] = h]
  /\ rpc' = [rpc EXCEPT ![q] = "searchpt"]
  /\ UNCHANGED <<g, searchVars, from, to, ctr, rlo, rhi, idx, loads, out, err>>

\* ... and whose second half returns m.d.Point(); then from.Less(that point)
RangerSearchPoint(q) ==
  /\ rpc[q] = "searchpt"
  /\ LET h == (rlo[q] + rhi[q]) \div 2
     IN IF ~Less(from[q], DecoderPoint(dec))
          THEN rlo' = [rlo EXCEPT ![q] = h + 1] /\ rhi' = rhi
          ELSE rhi' = [rhi EXCEPT ![q] = h] /\ rlo' = rlo
  /\ rpc' = [rpc EXCEPT ![q] = "search"]
  /\ UNCHANGED <<g, searchVars, from, to, ctr, idx, dec, mine, loads, out, err>>

\* idx := the result; return ErrNotFound when idx == size
RangerSearched(q) ==
  /\ rpc[q] = "search"
  /\ rlo[q] >= rhi[q]
  /\ idx' = [idx EXCEPT ![q] = rlo[q]]
  /\ IF rlo[q] = Len(g)
       THEN /\ err' = [err EXCEPT ![q] = "ErrNotFound"]
            /\ rpc' = [rpc EXCEPT ![q] = "done"]
       ELSE /\ err' = err
            /\ rpc' = [rpc EXCEPT ![q] = "load"]
  /\ UNCHANGED <<g, searchVars, from, to, ctr, rlo, rhi, dec, mine, loads, out>>

\* m.Load(idx): slicing the buffer past its end panics
RangerLoad(q) ==
  /\ rpc[q] = "load"
  /\ loads' = [loads EXCEPT ![q] = @ \cup {idx[q]}]
  /\ IF ~InRange(g, idx[q])
       THEN /\ rpc' = [rpc EXCEPT ![q] = "panic"]
            /\ err' = [err EXCEPT ![q] = "panic"]
            /\ UNCHANGED <<dec, mine>>
       ELSE /\ dec' = Decode(idx[q], q)
            /\ mine' = [mine EXCEPT ![q] = idx[q]]
            /\ rpc' = [rpc EXCEPT ![q] = "less"]
            /\ err' = err
  /\ UNCHANGED <<g, searchVars, from, to, ctr, rlo, rhi, idx, out>>

\* if !m.Less(to) { break }; return nil
RangerLess(q) ==
  /\ rpc[q] = "less"
  /\ IF ~IterLess(dec, to[q])
       THEN /\ err' = [err EXCEPT ![q] = "nil"]
            /\ rpc' = [rpc EXCEPT ![q] = "done"]
       ELSE /\ err' = err
            /\ rpc' = [rpc EXCEPT ![q] = "point"]
  /\ UNCHANGED <<g, searchVars, from, to, ctr, rlo, rhi, idx, dec, mine, loads, out>>

\* pt := m.d.Point(); if between(pt.Lon, from.Lon, to.Lon) { ... }; idx++
RangerPoint(q) ==
  /\ rpc[q] = "point"
  /\ LET p == DecoderPoint(dec)
     IN IF between(p.Lon, from[q].Lon, to[q].Lon)
          THEN /\ rpc' = [rpc EXCEPT ![q] = IF ctr[q].nil THEN "deliver" ELSE "contains"]
               /\ idx' = idx
          ELSE /\ rpc' = [rpc EXCEPT ![q] = "load"]
               /\ idx' = [idx EXCEPT ![q] = @ + 1]
  /\ UNCHANGED <<g, searchVars, from, to, ctr, rlo, rhi, dec, mine, loads, out, err>>

\* ctr.ContainsPoint(m.d.Point())
RangerContains(q) ==
  /\ rpc[q] = "contains"
  /\ IF ContainsPoint(ctr[q], DecoderPoint(dec))
       THEN /\ rpc' = [rpc EXCEPT ![q] = "deliver"]
            /\ idx' = idx
       ELSE /\ rpc' = [rpc EXCEPT ![q] = "load"]
            /\ idx' = [idx EXCEPT ![q] = @ + 1]
  /\ UNCHANGED <<g, searchVars, from, to, ctr, rlo, rhi, dec, mine, loads, out, err>>

\* fn(m.d): the callback gets the decoder, and so the record it holds now; idx++
RangerDeliver(q) ==
  /\ rpc[q] = "deliver"
  /\ out' = [out EXCEPT ![q] = Append(@, dec.rec)]
  /\ idx' = [idx EXCEPT ![q] = @ + 1]
  /\ rpc' = [rpc EXCEPT ![q] = "load"]
  /\ UNCHANGED <<g, searchVars, from, to, ctr, rlo, rhi, dec, mine, loads, err>>

NextRanger ==
  \E q \in Procs :
    \/ RangerSearchDecode(q) \/ RangerSearchPoint(q) \/ RangerSearched(q)
    \/ RangerLoad(q) \/ RangerLess(q) \/ RangerPoint(q)
    \/ RangerContains(q) \/ RangerDeliver(q)

SpecRanger == InitRanger /\ [][NextRanger]_vars

SpecConc == InitConc /\ [][NextRanger]_vars

----------------------------------------------------------------------------
(* Properties *)

Min(S) == CHOOSE m \in S : \A n \in S : m <= n

\* the least exact distance from the query to a point of the sequence
MinDistance == Min({PointDistance(g[k], pt) : k \in 1..Len(g)})

\* C1: on a sorted sequence with radius > 0, if some point lies within the
\* radius of the query (exact distance), Bestest returns an index below Len()
\* whose point has the least exact distance to the query over the whole
\* sequence, together with that distance.
C1_BestestReturnsNearest ==
  (/\ fn = "Bestest" /\ pc = "done" /\ deltaKm > 0
   /\ \E k \in 1..Len(g) : PointDistance(g[k], pt) <= deltaKm)
  => /\ ret.idx \in 0..(Len(g) - 1)
     /\ PointDistance(IndexPoint(g, ret.idx), pt) = MinDistance
     /\ ret.dist = MinDistance

\* C2: on a sorted sequence holding a point equal to the query (at any index),
\* Bestest with radius > 0 returns the index of a point equal to the query and
\* distance 0.
C2_BestestFindsEqualPoint ==
  (/\ fn = "Bestest" /\ pc = "done" /\ deltaKm > 0
   /\ \E k \in 1..Len(g) : g[k] = pt)
  => /\ ret.idx \in 0..(Len(g) - 1)
     /\ IndexPoint(g, ret.idx) = pt
     /\ ret.dist = 0

\* C3: a search (Bestest or Closest) that finds no qualifying point, because
\* the binary search failed or because no candidate beat Bestest's seed,
\* returns index Len() and distance -1.
C3_NotFoundSentinel ==
  (/\ fn \in {"Bestest", "Closest"} /\ pc = "done"
   /\ (x = Len(g) \/ (fn = "Bestest" /\ best = Len(g))))
  => ret = NotFound(Len(g))

\* C4: on an empty sequence Bestest and Closest return (0, -1) for every query
\* and radius, and never call IndexPoint.
C4_EmptySequence ==
  (fn \in {"Bestest", "Closest"} /\ Len(g) = 0)
  => /\ calls = 0
     /\ pc \in {"search", "done"}
     /\ (pc = "done" => ret = [idx |-> 0, dist |-> NotFoundDistance])

\* C4 happens: Closest has returned on an empty sequence, called with a
\* negative radius
C4_Witness ==
  fn = "Closest" /\ Len(g) = 0 /\ deltaKm < 0 /\ pc = "done" /\ ret = NotFound(0)

\* the indices of the records that are not less than Ranger's from
NotLessThanFrom(q) == {k \in 0..(Len(g) - 1) : ~Less(IndexPoint(g, k), from[q])}

\* C5: queries running concurrently on one Iter behave as when run alone: none
\* compares, filters or delivers a record that another query decoded, so each
\* delivers only records it loaded itself and that pass its own tests.
C5_ConcurrentQueriesIsolated ==
  \A q \in Procs :
    /\ rpc[q] \in {"searchpt", "less", "point", "contains", "deliver"}
         => dec.rec = mine[q]
    /\ \A k \in 1..Len(out[q]) :
         LET p == IndexPoint(g, out[q][k])
         IN /\ out[q][k] \in loads[q]
            /\ Less(p, to[q])
            /\ from[q].Lon <= p.Lon /\ p.Lon <= to[q].Lon
            /\ (~ctr[q].nil => p \in ctr[q].pts)

\* C6: Ranger only loads record indices in [0, Len()) and ends by returning
\* nil or ErrNotFound.
C6_RangerLoadsInBounds ==
  \A q \in Procs :
    /\ loads[q] \subseteq 0..(Len(g) - 1)
    /\ rpc[q] # "panic"
    /\ (rpc[q] = "done" => err[q] \in {"nil", "ErrNotFound"})

\* C7: Ranger's walk starts at the first index whose point is not less than
\* from, and Ranger returns ErrNotFound exactly when no point is not less than
\* from.
C7_RangerStartsAtFirstNotLess ==
  \A q \in Procs :
    rpc[q] \notin {"idle", "search", "searchpt"}
    => /\ (err[q] = "ErrNotFound" <=> NotLessThanFrom(q) = {})
       /\ (loads[q] # {} =>
             NotLessThanFrom(q) # {} /\ Min(loads[q]) = Min(NotLessThanFrom(q)))

\* C8: the records Ranger hands to the callback come in strictly increasing
\* index order (so each at most once, and in non-decreasing Point order); each
\* is less than to, has its longitude in [from.Lon, to.Lon] and, when a
\* container is given, is accepted by ContainsPoint.
C8_RangerDeliversInOrder ==
  \A q \in Procs :
    /\ \A k \in 1..(Len(out[q]) - 1) :
         /\ out[q][k] < out[q][k + 1]
         /\ ~Less(IndexPoint(g, out[q][k + 1]), IndexPoint(g, out[q][k]))
    /\ \A k \in 1..Len(out[q]) :
         LET p == IndexPoint(g, out[q][k])
         IN /\ out[q][k] \in 0..(Len(g) - 1)
            /\ (p.Lat < to[q].Lat \/ (p.Lat = to[q].Lat /\ p.Lon < to[q].Lon))
            /\ from[q].Lon <= p.Lon /\ p.Lon <= to[q].Lon
            /\ (~ctr[q].nil => p \in ctr[q].pts)

\* C8 happens: with a container given, Ranger has delivered two records and
\* skipped one in between
C8_Witness ==
  /\ ~ctr[1].nil
  /\ Len(out[1]) >= 2
  /\ out[1][2] > out[1][1] + 1

\* C9: on a non-empty sorted sequence where the binary search finds x < Len(),
\* Closest returns, whatever the radius, an index in [0, Len()) and a distance
\* that is not negative and not greater than the approximate distance between
\* the point at x and the query; it never ends otherwise.
C9_ClosestAlwaysReturnsCandidate ==
  (fn = "Closest" /\ pc \notin {"search", "seed"} /\ x < Len(g))
  => /\ pc # "panic"
     /\ (pc = "done" =>
           /\ ret.idx \in 0..(Len(g) - 1)
           /\ ret.dist >= 0
           /\ ret.dist <= Approximately(IndexPoint(g, x), pt))

\* C10: Expand(lat, lon, radiusKM) is the box of AreaInRange64 for the same
\* centre and radius: latitude half-width radiusKM / DegreeToKilometer,
\* longitude half-width radiusKM over the km per degree of longitude at lat.
C10_ExpandIsAreaInRange ==
  (fn = "Expand" /\ pc = "done")
  => /\ ret = AreaInRange64(<<pt.Lat, pt.Lon>>, deltaKm)
     /\ ret[2][1] = FAdd(pt.Lat, FDiv(deltaKm, DegreeToKilometer))
     /\ ret[2][2] = FAdd(pt.Lon, FDiv(deltaKm, LonKilos(pt.Lat)))

\* the latitudes Closest hands to LookupLonKmPerLat once the binary search has
\* found x < Len(): the query's and the candidate's
LookedUpLats == {pt.Lat, IndexPoint(g, x).Lat}

\* C11: for every latitude with |lat| < 90.1 degrees, in both hemispheres, the
\* index LookupLonKmPerLat computes lies within 0..900, so the lookups of
\* Closest (its own and those of the approximate distance) never index the
\* table out of bounds.
C11_LookupIndexInBounds ==
  (fn = "Closest" /\ pc \notin {"search", "done"} /\ InRange(g, x))
  => /\ \A lat \in LookedUpLats :
          Abs(lat) < LookupLen => LookupIndex(lat) \in 0..(LookupLen - 1)
     /\ pc # "panic"

\* the scan loop of Bestest or Closest is about to test the candidate at i
\* against the longitude corridor
CorridorTest ==
  /\ fn \in {"Bestest", "Closest"}
  /\ \/ pc = "back" /\ i > 0 /\ ~FLt(IndexPoint(g, i).Lat, minLat)
     \/ pc = "fwd" /\ i < Len(g) /\ ~FGt(IndexPoint(g, i).Lat, maxLat)

\* the km per degree of longitude at the query latitude, as each function
\* obtains it
QueryLonKm ==
  IF fn = "Bestest" THEN LonKilos(pt.Lat) ELSE LookupLonKmPerLat(pt.Lat)

\* C12: in Bestest and in Closest, whenever a candidate is tested against the
\* longitude corridor, in the backward or in the forward scan, the corridor
\* half-width deltaLon is the current best distance divided by the km per
\* degree of longitude at the query latitude.
C12_CorridorFollowsBest ==
  CorridorTest => deltaLon = FDiv(closest, QueryLonKm)

\* Bestest holds a candidate: the search found x < Len() and the seed has
\* been replaced by the point at best
BestestHolds ==
  /\ fn = "Bestest" /\ pc \in {"back", "fwd", "done"}
  /\ x < Len(g) /\ best < Len(g)

\* Bestest has returned an index below Len()
BestestFound == fn = "Bestest" /\ pc = "done" /\ ret.idx < Len(g)

\* C13, as claimed: a candidate replaces Bestest's seed, and so is returned,
\* only if its exact distance to the query is strictly less than the radius;
\* any index below Len() that Bestest returns comes with a distance strictly
\* less than the radius.
C13_FoundStrictlyWithinRadius ==
  /\ BestestHolds => closest < deltaKm
  /\ BestestFound => ret.dist < deltaKm

\* C13, amended: a candidate replaces Bestest's seed only if its exact
\* distance to the query is strictly less than the radius + 0.0001 km (one
\* unit of distance); any index below Len() that Bestest returns comes with
\* the exact distance of its point, strictly less than the radius + 0.0001 km.
C13_FoundWithinSeed ==
  /\ BestestHolds =>
       /\ closest = PointDistance(IndexPoint(g, best), pt)
       /\ closest < deltaKm + 1
  /\ BestestFound =>
       /\ ret.dist = PointDistance(IndexPoint(g, ret.idx), pt)
       /\ ret.dist < deltaKm + 1

\* C13 happens at the boundary: Bestest has returned a point found in a scan
\* whose distance is exactly the radius
C13_Witness ==
  /\ BestestFound
  /\ ret.idx # x
  /\ ret.dist = deltaKm
  /\ deltaKm > 0
====
